---------------------------- MODULE Spec2Model ----------------------------
(***************************************************************************)
(* A model of the calendar assistant: the text pipeline of agent.py        *)
(* (_inject_default_hour, _clean_text_for_parsing, _extract_single_time,   *)
(* _extract_times_for_reschedule, _detect_intent), its handler             *)
(* (handle_user_input, process_message) and the calendar operations of     *)
(* calendar_utils.py (book_slot, get_free_slots, list_upcoming_events,     *)
(* reschedule_event, cancel_event_by_summary).                             *)
(*                                                                         *)
(* Text is a TLA+ string, read character by character with SubSeq.  The    *)
(* third-party parser (dateparser.parse) and the remote calendar service   *)
(* are the environment: a parse is a nondeterministic outcome (no result,  *)
(* a naive or an aware datetime, or an exception) that is the same for the *)
(* same text within one request, and each call of the calendar service     *)
(* either succeeds or raises.                                              *)
(***************************************************************************)
EXTENDS Integers, Sequences, FiniteSets, TLC

(***************************************************************************)
(* Characters and strings (Python's str and re primitives).                *)
(***************************************************************************)
Ch(s, i) == SubSeq(s, i, i)

UpperLetters == "ABCDEFGHIJKLMNOPQRSTUVWXYZ"

LowerLetters == "abcdefghijklmnopqrstuvwxyz"

Digits == {"0", "1", "2", "3", "4", "5", "6", "7", "8", "9"}

IsDigit(c) == c \in Digits

IsLowerLetter(c) == \E i \in 1..26 : Ch(LowerLetters, i) = c

IsUpperLetter(c) == \E i \in 1..26 : Ch(UpperLetters, i) = c

\* \w of the re module: a letter, a digit or the underscore.
IsWordCh(c) == IsLowerLetter(c) \/ IsUpperLetter(c) \/ IsDigit(c) \/ c = "_"

\* \s of the re module.
IsSpaceCh(c) == c \in {" ", "\t", "\n"}

LowerCh(c) ==
  IF IsUpperLetter(c)
  THEN Ch(LowerLetters, CHOOSE i \in 1..26 : Ch(UpperLetters, i) = c)
  ELSE c

RECURSIVE LowerFrom(_, _)
LowerFrom(s, i) ==
  IF i > Len(s) THEN "" ELSE LowerCh(Ch(s, i)) \o LowerFrom(s, i + 1)

\* str.lower()
Lower(s) == LowerFrom(s, 1)

\* s[i:].startswith(p), i counted from 1
StartsAt(s, p, i) ==
  /\ i >= 1
  /\ i + Len(p) - 1 <= Len(s)
  /\ SubSeq(s, i, i + Len(p) - 1) = p

\* p in s
Contains(s, p) == \E i \in 1..Len(s) : StartsAt(s, p, i)

RECURSIVE ReplaceFrom(_, _, _, _)
ReplaceFrom(s, p, r, i) ==
  IF i > Len(s) THEN ""
  ELSE IF StartsAt(s, p, i) THEN r \o ReplaceFrom(s, p, r, i + Len(p))
  ELSE Ch(s, i) \o ReplaceFrom(s, p, r, i + 1)

\* s.replace(p, r): every occurrence, left to right, without overlap
Replace(s, p, r) == ReplaceFrom(s, p, r, 1)

StripChars == {",", ".", "!", "?", " "}

RECURSIVE LStrip(_)
LStrip(s) ==
  IF Len(s) > 0 /\ Ch(s, 1) \in StripChars THEN LStrip(SubSeq(s, 2, Len(s))) ELSE s

RECURSIVE RStrip(_)
RStrip(s) ==
  IF Len(s) > 0 /\ Ch(s, Len(s)) \in StripChars
  THEN RStrip(SubSeq(s, 1, Len(s) - 1)) ELSE s

\* s.strip(",.!? ")
Strip(s) == RStrip(LStrip(s))

\* \b of the re module at the gap before character i (1 .. Len(s)+1)
WordBoundary(s, i) ==
  LET before == i > 1 /\ IsWordCh(Ch(s, i - 1))
      after  == i <= Len(s) /\ IsWordCh(Ch(s, i))
  IN  before # after

RECURSIVE SkipSpaces(_, _)
\* the position after a greedy \s* starting at i
SkipSpaces(s, i) ==
  IF i <= Len(s) /\ IsSpaceCh(Ch(s, i)) THEN SkipSpaces(s, i + 1) ELSE i

RECURSIVE SkipLetters(_, _)
\* the position after a greedy [a-z]* starting at i
SkipLetters(s, i) ==
  IF i <= Len(s) /\ IsLowerLetter(Ch(s, i)) THEN SkipLetters(s, i + 1) ELSE i

RECURSIVE WordsEnd(_, _, _)
\* A pattern w1\s+w2\s+...\s+wn matched at i: the position after the match, or
\* 0 when it does not match there.
WordsEnd(s, ws, i) ==
  IF ~StartsAt(s, ws[1], i) THEN 0
  ELSE LET j == i + Len(ws[1])
       IN  IF Len(ws) = 1 THEN j
           ELSE IF SkipSpaces(s, j) = j THEN 0
           ELSE WordsEnd(s, Tail(ws), SkipSpaces(s, j))

\* re.search(r"\b(a1|a2|...)\b", s) succeeds, each alternative a sequence of
\* words joined by \s+
SearchWords(s, alts) ==
  \E i \in 1..Len(s) : \E k \in 1..Len(alts) :
     /\ WordBoundary(s, i)
     /\ WordsEnd(s, alts[k], i) # 0
     /\ WordBoundary(s, WordsEnd(s, alts[k], i))

(***************************************************************************)
(* agent.py: text normalisation.                                           *)
(***************************************************************************)
\* replacements, in the dict's insertion order
Replacements ==
  << <<"morning", "9 AM">>, <<"afternoon", "2 PM">>, <<"evening", "6 PM">>,
     <<"night", "8 PM">>, <<"noon", "12 PM">>, <<"midnight", "12 AM">> >>

\* _inject_default_hour: the first phrase (in dict order) that occurs in text
\* is replaced everywhere it occurs, and nothing else is.
InjectDefaultHour(text) ==
  IF \E k \in 1..Len(Replacements) : Contains(text, Replacements[k][1])
  THEN LET k == CHOOSE n \in 1..Len(Replacements) :
                   /\ Contains(text, Replacements[n][1])
                   /\ \A m \in 1..(n - 1) : ~Contains(text, Replacements[m][1])
       IN  Replace(text, Replacements[k][1], Replacements[k][2])
  ELSE text

OrdinalSuffixes == {"st", "nd", "rd", "th"}

RECURSIVE StripOrdinalsFrom(_, _)
\* re.sub(r"(\d+)(st|nd|rd|th)", r"\1", s): a suffix right after a digit goes
StripOrdinalsFrom(s, i) ==
  IF i > Len(s) THEN ""
  ELSE IF /\ IsDigit(Ch(s, i))
          /\ i + 2 <= Len(s)
          /\ SubSeq(s, i + 1, i + 2) \in OrdinalSuffixes
       THEN Ch(s, i) \o StripOrdinalsFrom(s, i + 3)
       ELSE Ch(s, i) \o StripOrdinalsFrom(s, i + 1)

\* the alternation of \b(at|on|from|to)\b, in its order
Connectives == <<"at", "on", "from", "to">>

\* the end of a connective matched as a whole word at i, or 0
ConnectiveEnd(s, i) ==
  IF \E k \in 1..Len(Connectives) :
        /\ WordBoundary(s, i)
        /\ StartsAt(s, Connectives[k], i)
        /\ WordBoundary(s, i + Len(Connectives[k]))
  THEN LET k == CHOOSE n \in 1..Len(Connectives) :
                   /\ StartsAt(s, Connectives[n], i)
                   /\ WordBoundary(s, i + Len(Connectives[n]))
                   /\ \A m \in 1..(n - 1) :
                         ~(/\ StartsAt(s, Connectives[m], i)
                           /\ WordBoundary(s, i + Len(Connectives[m])))
       IN  i + Len(Connectives[k])
  ELSE 0

RECURSIVE StripConnectivesFrom(_, _)
\* re.sub(r"\b(at|on|from|to)\b", "", s)
StripConnectivesFrom(s, i) ==
  IF i > Len(s) THEN ""
  ELSE IF ConnectiveEnd(s, i) # 0 THEN StripConnectivesFrom(s, ConnectiveEnd(s, i))
  ELSE Ch(s, i) \o StripConnectivesFrom(s, i + 1)

\* _clean_text_for_parsing
CleanTextForParsing(text) ==
  Strip(StripConnectivesFrom(StripOrdinalsFrom(Lower(text), 1), 1))


(***************************************************************************)
(* agent.py: the regular expressions of the extractors.                    *)
(***************************************************************************)
\* \d{1,2}(?::\d{2})?\s*(am|pm) tried at i with n digits and, when colon, the
\* :\d{2} part; bounded adds the trailing \b.  The position after the match,
\* or 0.  (The text searched is lower-case at every use.)
ClockEndWith(s, i, n, colon, bounded) ==
  IF ~(\A k \in 0..(n - 1) : i + k <= Len(s) /\ IsDigit(Ch(s, i + k))) THEN 0
  ELSE LET j == i + n
           okColon == /\ j + 2 <= Len(s)
                      /\ Ch(s, j) = ":"
                      /\ IsDigit(Ch(s, j + 1))
                      /\ IsDigit(Ch(s, j + 2))
           k == SkipSpaces(s, IF colon THEN j + 3 ELSE j)
       IN  IF colon /\ ~okColon THEN 0
           ELSE IF ~(StartsAt(s, "am", k) \/ StartsAt(s, "pm", k)) THEN 0
           ELSE IF bounded /\ ~WordBoundary(s, k + 2) THEN 0
           ELSE k + 2

\* The same pattern in the regex engine's order of preference: two digits
\* before one, the optional group taken before it is skipped.
ClockEnd(s, i, bounded) ==
  IF ClockEndWith(s, i, 2, TRUE, bounded) # 0 THEN ClockEndWith(s, i, 2, TRUE, bounded)
  ELSE IF ClockEndWith(s, i, 2, FALSE, bounded) # 0 THEN ClockEndWith(s, i, 2, FALSE, bounded)
  ELSE IF ClockEndWith(s, i, 1, TRUE, bounded) # 0 THEN ClockEndWith(s, i, 1, TRUE, bounded)
  ELSE ClockEndWith(s, i, 1, FALSE, bounded)

Months ==
  {"jan", "feb", "mar", "apr", "may", "jun", "jul", "aug", "sep", "oct", "nov", "dec"}

\* fallback regex A matched at i:
\* (\d{1,2})(?:st|nd|rd|th)?\s+(jan|...|dec)[a-z]*\s+\d{1,2}(?::\d{2})?\s*(am|pm)
DayMonthClockAt(s, i) ==
  \E n \in {1, 2} : \E sfx \in {0, 2} :
     /\ \A k \in 0..(n - 1) : i + k <= Len(s) /\ IsDigit(Ch(s, i + k))
     /\ sfx = 2 => /\ i + n + 1 <= Len(s)
                   /\ SubSeq(s, i + n, i + n + 1) \in OrdinalSuffixes
     /\ LET j == i + n + sfx
            m == SkipSpaces(s, j)
            e == SkipLetters(s, m + 3)
        IN  /\ m > j
            /\ \E mon \in Months : StartsAt(s, mon, m)
            /\ SkipSpaces(s, e) > e
            /\ ClockEnd(s, SkipSpaces(s, e), FALSE) # 0

\* re.search of fallback regex A finds a match in the cleaned text
SearchDayMonthClock(cleaned) == \E i \in 1..Len(cleaned) : DayMonthClockAt(cleaned, i)

\* re.search of fallback regex B,
\* (tomorrow|today|next\s+\w+|this\s+\w+)?\s*\d{1,2}(?::\d{2})?\s*(am|pm),
\* finds a match: its first group and the \s* after it may both be empty, so
\* there is a match exactly when the clock part matches somewhere.
SearchRelativeClock(cleaned) == \E i \in 1..Len(cleaned) : ClockEnd(cleaned, i, FALSE) # 0

RECURSIVE FindClockTimesFrom(_, _)
\* re.findall(r"\b\d{1,2}(?::\d{2})?\s*(?:am|pm)\b", s): the matched texts,
\* left to right, without overlap
FindClockTimesFrom(s, i) ==
  IF i > Len(s) THEN <<>>
  ELSE IF WordBoundary(s, i) /\ ClockEnd(s, i, TRUE) # 0
       THEN <<SubSeq(s, i, ClockEnd(s, i, TRUE) - 1)>>
               \o FindClockTimesFrom(s, ClockEnd(s, i, TRUE))
       ELSE FindClockTimesFrom(s, i + 1)

\* "to" (IGNORECASE) between \s+ and \s+(.+), the first \s+ starting at b
ToAfter(s, b) ==
  LET c == SkipSpaces(s, b)
  IN  c > b /\ c + 1 <= Len(s) /\ Lower(SubSeq(s, c, c + 1)) = "to"

\* The matches of from\s+(.+?)\s+to\s+(.+) (IGNORECASE) as <<i, a, b, d>>:
\* "from" at i, group 1 = s[a..b-1], "to" after the spaces that follow b,
\* group 2 = s[d..] (the text holds no line break).
FromToMatches(s) ==
  UNION { UNION { UNION {
      { <<i, a, b, d>> :
        d \in { x \in (SkipSpaces(s, b) + 3)..SkipSpaces(s, SkipSpaces(s, b) + 2) :
                x <= Len(s) } } :
      b \in { x \in (a + 1)..Len(s) : ToAfter(s, x) } } :
      a \in (i + 5)..SkipSpaces(s, i + 4) } :
      i \in { x \in 1..Len(s) : x + 3 <= Len(s) /\ Lower(SubSeq(s, x, x + 3)) = "from" } }

\* The match re.search returns: leftmost, first \s+ greedy, group 1 lazy,
\* last \s+ greedy.
FromToMatch(s) ==
  CHOOSE t \in FromToMatches(s) :
    \A o \in FromToMatches(s) :
       \/ t[1] < o[1]
       \/ t[1] = o[1] /\ t[2] > o[2]
       \/ t[1] = o[1] /\ t[2] = o[2] /\ t[3] < o[3]
       \/ t[1] = o[1] /\ t[2] = o[2] /\ t[3] = o[3] /\ t[4] >= o[4]

(***************************************************************************)
(* agent.py: intent patterns.                                              *)
(***************************************************************************)
\* _INTENT_PATTERNS, in the dict's insertion order; an alternative is the
\* sequence of its words, joined by \s+ in the pattern
INTENT_PATTERNS ==
  << [intent |-> "reschedule",
      alts |-> << <<"reschedule">>, <<"move">>, <<"change">>, <<"shift">>,
                  <<"rearrange">> >>],
     [intent |-> "cancel",
      alts |-> << <<"cancel">>, <<"delete">>, <<"remove">>, <<"call", "off">> >>],
     [intent |-> "check",
      alts |-> << <<"free">>, <<"busy">>, <<"available">>, <<"check">>,
                  <<"when", "are", "you">> >>],
     [intent |-> "list",
      alts |-> << <<"list">>, <<"show">>, <<"upcoming">>, <<"events">>,
                  <<"meetings">>, <<"appointments">> >>],
     [intent |-> "book",
      alts |-> << <<"book">>, <<"schedule">>, <<"set", "up">>, <<"create">>,
                  <<"meet">>, <<"set", "a", "meeting">> >>] >>

(***************************************************************************)
(* Bounds of the model.                                                    *)
(***************************************************************************)
\* the calendar holds at most MaxEvents events: a call that would add one
\* more is not taken
MaxEvents == 2

\* the clock shows one of MaxTicks + 1 instants
MaxTicks == 2

(***************************************************************************)
(* Datetimes: a wall-clock day and minute of the day, naive or with a      *)
(* UTC offset in minutes.  The same record shape carries "no result"       *)
(* (None) and "the call raised".                                           *)
(***************************************************************************)
\* INDIA_TZ = pytz.timezone("Asia/Kolkata"): UTC+5:30, in minutes
INDIA_TZ == 330

\* dt.replace(hour=9, minute=0)
DefaultHour == 9

DT(aware, off, day, min) ==
  [kind |-> "dt", aware |-> aware, off |-> off, day |-> day, min |-> min]

None == [kind |-> "none", aware |-> FALSE, off |-> 0, day |-> 0, min |-> 0]

Raised == [kind |-> "raise", aware |-> FALSE, off |-> 0, day |-> 0, min |-> 0]

\* the instant of an aware datetime, in minutes of UTC
Instant(dt) == dt.day * 1440 + dt.min - dt.off

Hour(dt) == dt.min \div 60

Minute(dt) == dt.min % 60

\* dt + datetime.timedelta(minutes=n): wall-clock arithmetic
AddMinutes(dt, n) ==
  [dt EXCEPT !.day = (dt.day * 1440 + dt.min + n) \div 1440,
             !.min = (dt.day * 1440 + dt.min + n) % 1440]

\* INDIA_TZ.localize(dt)
Localize(dt) == [dt EXCEPT !.aware = TRUE, !.off = INDIA_TZ]

\* dt.astimezone(INDIA_TZ)
AsTimezone(dt) ==
  DT(TRUE, INDIA_TZ, (Instant(dt) + INDIA_TZ) \div 1440, (Instant(dt) + INDIA_TZ) % 1440)

\* a datetime handed on as the parser gave it
AsParsed(dt) == dt

\* _ensure_timezone
EnsureTimezone(dt) == IF ~dt.aware THEN Localize(dt) ELSE AsTimezone(dt)

\* if dt.hour == 0 and dt.minute == 0: dt = dt.replace(hour=9, minute=0)
DefaultToNine(dt) ==
  IF Hour(dt) = 0 /\ Minute(dt) = 0 THEN [dt EXCEPT !.min = DefaultHour * 60] ELSE dt

(***************************************************************************)
(* dateparser.parse, the environment.  What it returns for a text is not   *)
(* decided by this repository: a call yields None, raises, or yields a     *)
(* datetime that is naive, aware in the target zone or aware in another    *)
(* zone (here UTC), at midnight or at a clock time (09:30).  memo records  *)
(* what the calls of the current request returned, so the same text parsed *)
(* at the same site gives the same outcome within a request.               *)
(***************************************************************************)
ParsedDatetimes ==
  { DT(FALSE, 0, 1, 0), DT(TRUE, INDIA_TZ, 1, 0), DT(TRUE, 0, 1, 0),
    DT(FALSE, 0, 1, 9 * 60 + 30) }

ParseOutcomes == {None, Raised} \cup ParsedDatetimes

\* site: "primary" (line 85), "A" (line 103), "B" (line 113)
DateparserParse(site, text, memo) ==
  IF \E e \in memo : e.site = site /\ e.text = text
  THEN { [out |-> (CHOOSE e \in memo : e.site = site /\ e.text = text).out,
          memo |-> memo] }
  ELSE { [out |-> o, memo |-> memo \cup {[site |-> site, text |-> text, out |-> o]}] :
            o \in ParseOutcomes }

(***************************************************************************)
(* agent.py: _extract_single_time.                                         *)
(***************************************************************************)
\* the cascade: the primary parse, then fallback A, then fallback B
ParseSites == <<"primary", "A", "B">>

\* whether the parse at a site is attempted: the primary always, a fallback
\* when its regex finds a match in the cleaned text
SiteApplies(site, cleaned) ==
  CASE site = "primary" -> TRUE
    [] site = "A" -> SearchDayMonthClock(cleaned)
    [] site = "B" -> SearchRelativeClock(cleaned)

RECURSIVE ParseCascade(_, _, _)
\* lines 85-113: each parse is tried only while dt is still None ("if not dt");
\* an exception of a parse ends the cascade
ParseCascade(cleaned, memo, k) ==
  IF k > Len(ParseSites) THEN { [out |-> None, site |-> "none", memo |-> memo] }
  ELSE IF ~SiteApplies(ParseSites[k], cleaned) THEN ParseCascade(cleaned, memo, k + 1)
  ELSE UNION { IF p.out.kind = "none"
               THEN ParseCascade(cleaned, p.memo, k + 1)
               ELSE { [out |-> p.out, site |-> ParseSites[k], memo |-> p.memo] } :
               p \in DateparserParse(ParseSites[k], cleaned, memo) }

\* _extract_single_time: the possible results, each with the memo after it and
\* a log of the call (its text, what the parser gave, what it returned)
ExtractSingleTime(text, memo) ==
  LET injected == InjectDefaultHour(text)
      cleaned  == CleanTextForParsing(injected)
  IN  { [res  |-> IF c.out.kind = "dt" THEN EnsureTimezone(DefaultToNine(c.out))
                  ELSE c.out,
         memo |-> c.memo,
         log  |-> << [text |-> text, injected |-> injected, cleaned |-> cleaned,
                      site |-> c.site, parsed |-> c.out,
                      res |-> IF c.out.kind = "dt"
                              THEN EnsureTimezone(DefaultToNine(c.out)) ELSE c.out] >>] :
        c \in ParseCascade(cleaned, memo, 1) }

(***************************************************************************)
(* agent.py: _extract_times_for_reschedule.                                *)
(***************************************************************************)
\* _extract_single_time on a, then on b (unless the first call raised)
ExtractPair(a, b, memo) ==
  UNION { IF r1.res.kind = "raise"
          THEN { [old |-> r1.res, new |-> None, raised |-> TRUE,
                  memo |-> r1.memo, log |-> r1.log] }
          ELSE { [old |-> r1.res, new |-> r2.res, raised |-> r2.res.kind = "raise",
                  memo |-> r2.memo, log |-> r1.log \o r2.log] :
                 r2 \in ExtractSingleTime(b, r1.memo) } :
          r1 \in ExtractSingleTime(a, memo) }

ExtractTimesForReschedule(text, memo) ==
  IF FromToMatches(text) # {}
  THEN LET t == FromToMatch(text)
       IN  ExtractPair(SubSeq(text, t[2], t[3] - 1), SubSeq(text, t[4], Len(text)), memo)
  ELSE LET matches == FindClockTimesFrom(Lower(text), 1)
       IN  IF Len(matches) >= 2
           THEN ExtractPair(matches[1], matches[2], memo)
           ELSE { [old |-> None, new |-> None, raised |-> FALSE,
                   memo |-> memo, log |-> <<>>] }

(***************************************************************************)
(* agent.py: _detect_intent.                                               *)
(***************************************************************************)
\* the intent of the last pattern, in dict order, that the text matches
LastPatternIntent(text_lc) ==
  INTENT_PATTERNS[CHOOSE k \in 1..Len(INTENT_PATTERNS) :
                     /\ SearchWords(text_lc, INTENT_PATTERNS[k].alts)
                     /\ \A j \in (k + 1)..Len(INTENT_PATTERNS) :
                           ~SearchWords(text_lc, INTENT_PATTERNS[j].alts)].intent

\* the intent of the first pattern, in dict order, that the text matches
FirstPatternIntent(text_lc) ==
  INTENT_PATTERNS[CHOOSE k \in 1..Len(INTENT_PATTERNS) :
                     /\ SearchWords(text_lc, INTENT_PATTERNS[k].alts)
                     /\ \A j \in 1..(k - 1) :
                           ~SearchWords(text_lc, INTENT_PATTERNS[j].alts)].intent

\* a classifier without the final "return unknown": it falls off its end
DetectIntentNoDefault(text, memo) ==
  LET text_lc == Strip(Lower(text))
  IN  IF Contains(text_lc, "help")
      THEN { [intent |-> "help", raised |-> FALSE, memo |-> memo, log |-> <<>>] }
      ELSE IF \E k \in 1..Len(INTENT_PATTERNS) :
                 SearchWords(text_lc, INTENT_PATTERNS[k].alts)
      THEN { [intent |-> FirstPatternIntent(text_lc), raised |-> FALSE,
              memo |-> memo, log |-> <<>>] }
      ELSE { [intent |-> IF r.res.kind = "dt" THEN "book" ELSE "None",
              raised |-> r.res.kind = "raise", memo |-> r.memo, log |-> r.log] :
             r \in ExtractSingleTime(text_lc, memo) }

DetectIntent(text, memo) ==
  LET text_lc == Strip(Lower(text))
  IN  IF Contains(text_lc, "help")
      THEN { [intent |-> "help", raised |-> FALSE, memo |-> memo, log |-> <<>>] }
      ELSE IF \E k \in 1..Len(INTENT_PATTERNS) :
                 SearchWords(text_lc, INTENT_PATTERNS[k].alts)
      THEN { [intent |-> FirstPatternIntent(text_lc), raised |-> FALSE,
              memo |-> memo, log |-> <<>>] }
      ELSE { [intent |-> IF r.res.kind = "dt" THEN "book" ELSE "unknown",
              raised |-> r.res.kind = "raise", memo |-> r.memo, log |-> r.log] :
             r \in ExtractSingleTime(text_lc, memo) }

(***************************************************************************)
(* Replies.  A reply is the string the user sees: its leading marker (the  *)
(* emoji the message starts with, written as its short code), the fixed    *)
(* text that follows and the values formatted into it.                     *)
(***************************************************************************)
Reply(marker, body, args) == [marker |-> marker, body |-> body, args |-> args]

\* the marker of the strings built in the except clauses
WarningMarker == ":warning:"

\* dt.strftime(...) of a datetime
StrfTime(dt) ==
  "day " \o ToString(dt.day) \o " " \o ToString(Hour(dt)) \o ":" \o ToString(Minute(dt))

(***************************************************************************)
(* calendar_utils.py.  The calendar is the remote service's set of events, *)
(* each with the service's id, its summary and its start and end instants. *)
(* svc is how the service behaves during one operation: "ok", or the call  *)
(* named raises ("auth": get_calendar_service, "list": events().list,      *)
(* "write": events().insert / update / delete, which then changes nothing).*)
(***************************************************************************)
ServiceOutcomes == {"ok", "auth", "list", "write"}

\* datetime.isoformat() of an aware datetime: date, time and offset
IsoFormat(dt) == [date |-> dt.day, time |-> dt.min, offset |-> dt.off]

\* the instant the service reads from an ISO string
IsoInstant(iso) == iso.date * 1440 + iso.time - iso.offset

\* format_datetime_range(start, hours=1.0)
FormatDatetimeRange(start) ==
  LET end == AddMinutes(start, 1 * 60)
  IN  [start |-> IsoFormat(EnsureTimezone(start)), end |-> IsoFormat(EnsureTimezone(end))]

\* service.events().list(timeMin=, timeMax=, singleEvents=True).execute()
\* .get("items", []): the events that end after timeMin and start before timeMax
EventsList(cal, timeMin, timeMax) ==
  { e \in cal : e.end > IsoInstant(timeMin) /\ e.start < IsoInstant(timeMax) }

\* the id the service gives a new event: one no event of the calendar has
NewEventId(cal) ==
  CHOOSE i \in 1..(Cardinality(cal) + 1) :
    /\ \A e \in cal : e.id # i
    /\ \A j \in 1..(i - 1) : \E e \in cal : e.id = j

\* summary_text.lower() in event.get("summary", "").lower()
SummaryMatches(summary_text, e) == Contains(Lower(e.summary), Lower(summary_text))

ErrorReply(body, svc) == Reply(WarningMarker, body, <<svc>>)

\* a book_slot without its conflict check
BookSlotUnchecked(cal, start_time, summary, svc) ==
  LET time_range == FormatDatetimeRange(start_time)
      event == [id |-> NewEventId(cal), summary |-> summary,
                start |-> IsoInstant(time_range.start),
                end |-> IsoInstant(time_range.end)]
      when == StrfTime(EnsureTimezone(start_time))
  IN  IF svc # "ok"
      THEN { [reply |-> ErrorReply(" Error booking event: ", svc), cal |-> cal] }
      ELSE { [reply |-> Reply(":calendar:", " Booked ", <<summary, when>>),
              cal |-> cal \cup {event}] }

\* book_slot: the outcomes [reply, cal] for a service behaviour
BookSlot(cal, start_time, summary, svc) ==
  LET time_range == FormatDatetimeRange(start_time)
      events == EventsList(cal, time_range.start, time_range.end)
      event == [id |-> NewEventId(cal), summary |-> summary,
                start |-> IsoInstant(time_range.start),
                end |-> IsoInstant(time_range.end)]
      when == StrfTime(EnsureTimezone(start_time))
  IN  IF svc \in {"auth", "list"}
      THEN { [reply |-> ErrorReply(" Error booking event: ", svc), cal |-> cal] }
      ELSE IF events # {}
      THEN { [reply |-> Reply(":x:", " Time slot conflict at ", <<when>>), cal |-> cal] }
      ELSE IF svc = "write"
      THEN { [reply |-> ErrorReply(" Error booking event: ", svc), cal |-> cal] }
      ELSE { [reply |-> Reply(":calendar:", " Booked ", <<summary, when>>),
              cal |-> cal \cup {event}] }

\* get_free_slots
GetFreeSlots(cal, start_time, svc) ==
  LET time_range == FormatDatetimeRange(start_time)
      events == EventsList(cal, time_range.start, time_range.end)
      formatted == StrfTime(EnsureTimezone(start_time))
  IN  IF svc \in {"auth", "list"}
      THEN { [reply |-> ErrorReply(" Error checking availability: ", svc), cal |-> cal] }
      ELSE IF events = {}
      THEN { [reply |-> Reply(":white_check_mark:", " You are free at ", <<formatted>>),
              cal |-> cal] }
      ELSE { [reply |-> Reply(":x:", " You already have an event at ", <<formatted>>),
              cal |-> cal] }

\* the datetime of an instant in the target zone: parse(start).astimezone(INDIA_TZ)
FromInstant(t) == AsTimezone(DT(TRUE, 0, t \div 1440, t % 1440))

RECURSIVE OrderByStart(_)
\* orderBy="startTime": the events by start, ties in any one order
OrderByStart(events) ==
  IF events = {} THEN <<>>
  ELSE LET first == CHOOSE e \in events : \A o \in events : e.start <= o.start
       IN  <<first>> \o OrderByStart(events \ {first})

RECURSIVE EventLines(_)
EventLines(events) ==
  IF events = <<>> THEN <<>>
  ELSE <<Head(events).summary \o " on " \o StrfTime(FromInstant(Head(events).start))>>
          \o EventLines(Tail(events))

\* list_upcoming_events(max_results=5): timeMin = now, no timeMax
ListUpcomingEvents(cal, now, svc) ==
  LET all == OrderByStart({ e \in cal : e.end > now })
      events == SubSeq(all, 1, IF Len(all) < 5 THEN Len(all) ELSE 5)
  IN  IF svc \in {"auth", "list"}
      THEN { [reply |-> ErrorReply(" Error listing events: ", svc), cal |-> cal] }
      ELSE IF events = <<>>
      THEN { [reply |-> Reply(":mailbox:", " No upcoming events found.", <<>>), cal |-> cal] }
      ELSE { [reply |-> Reply(":calendar:", " Upcoming events:", EventLines(events)),
              cal |-> cal] }

\* reschedule_event: the first event of the old window whose summary matches
\* is moved to the new window; the list has no stated order, so any matching
\* event may be the first
RescheduleEvent(cal, summary_text, old_time, new_time, svc) ==
  LET old_range == FormatDatetimeRange(old_time)
      events == EventsList(cal, old_range.start, old_range.end)
      matching == { e \in events : SummaryMatches(summary_text, e) }
      new_range == FormatDatetimeRange(new_time)
      when == StrfTime(EnsureTimezone(new_time))
  IN  IF svc \in {"auth", "list"}
      THEN { [reply |-> ErrorReply(" Error rescheduling event: ", svc), cal |-> cal] }
      ELSE IF matching = {}
      THEN { [reply |-> Reply(WarningMarker, " No matching event found to reschedule.", <<>>),
              cal |-> cal] }
      ELSE IF svc = "write"
      THEN { [reply |-> ErrorReply(" Error rescheduling event: ", svc), cal |-> cal] }
      ELSE { [reply |-> Reply(":repeat:", " Rescheduled ", <<e.summary, when>>),
              cal |-> (cal \ {e}) \cup
                        { [e EXCEPT !.start = IsoInstant(new_range.start),
                                    !.end = IsoInstant(new_range.end)] }] :
             e \in matching }

\* cancel_event_by_summary
CancelEventBySummary(cal, summary_text, date_time, svc) ==
  LET time_range == FormatDatetimeRange(date_time)
      events == EventsList(cal, time_range.start, time_range.end)
      matching == { e \in events : SummaryMatches(summary_text, e) }
      formatted == StrfTime(EnsureTimezone(date_time))
  IN  IF svc \in {"auth", "list"}
      THEN { [reply |-> ErrorReply(" Error cancelling event: ", svc), cal |-> cal] }
      ELSE IF matching = {}
      THEN { [reply |-> Reply(WarningMarker, " No matching event found to cancel.", <<>>),
              cal |-> cal] }
      ELSE IF svc = "write"
      THEN { [reply |-> ErrorReply(" Error cancelling event: ", svc), cal |-> cal] }
      ELSE { [reply |-> Reply(":wastebasket:", " Cancelled ", <<e.summary, formatted>>),
              cal |-> cal \ {e}] :
             e \in matching }

(***************************************************************************)
(* agent.py: handle_user_input.                                            *)
(***************************************************************************)
HELP_RESPONSE == Reply("", "Here's what I can help with: ...", <<>>)

BothTimesPrompt == Reply(":x:", " Please specify both times clearly, e.g. ...", <<>>)

FutureRejection == Reply(":x:", " The new time must be in the future.", <<>>)

TimePrompt == Reply(":x:", " I couldn't understand the time. Try formats like ...", <<>>)

CancelTimePrompt == Reply(":exclamation:", " Please specify the time, e.g. ...", <<>>)

FallbackReply ==
  Reply(":thinking:", " I'm not sure what you're asking. Type 'help' to see what I can do.",
        <<>>)

\* the event label of every collaborator call
EventLabel == "TailorTalk Meeting"

\* The clock starts at 08:45 of day 1 in the target zone;
\* datetime.datetime.now(INDIA_TZ) reads it.
ClockStart == Instant(DT(TRUE, INDIA_TZ, 1, 8 * 60 + 45))

\* What the handler has made of the utterance when it reaches its checks:
\* the intent, the times extracted for it, and whether a step raised.
Front(intent, raised, old_t, new_t, parsed_t) ==
  [intent |-> intent, raised |-> raised, old_t |-> old_t, new_t |-> new_t,
   parsed_t |-> parsed_t]

\* lines 178, 188 and 199: _detect_intent, then the extractor of the intent
Understand(user_input) ==
  UNION {
    IF d.raised THEN { Front("", TRUE, None, None, None) }
    ELSE IF d.intent \in {"help", "list"}
    THEN { Front(d.intent, FALSE, None, None, None) }
    ELSE IF d.intent = "reschedule"
    THEN { Front(d.intent, p.raised, p.old, p.new, None) :
           p \in ExtractTimesForReschedule(user_input, d.memo) }
    ELSE { Front(d.intent, r.res.kind = "raise", None, None, r.res) :
           r \in ExtractSingleTime(user_input, d.memo) } :
    d \in DetectIntent(user_input, {}) }

Call(op, t1, t2) == [op |-> op, t1 |-> t1, t2 |-> t2]

Returned(reply, cal, calls, now) ==
  [kind |-> "return", reply |-> reply, cal |-> cal, calls |-> calls, now |-> now]

\* a collaborator's outcomes as the handler's
Delegated(outs, call, now) == { Returned(o.reply, o.cal, <<call>>, now) : o \in outs }

\* a handler that takes every extracted value for a time
NeverMissing(t) == FALSE

\* "not old_t", "not new_t", "not parsed_t": the extractor returned None
Missing(t) == t.kind = "none"

\* new_t < datetime.datetime.now(INDIA_TZ)
NotInFuture(new_t, now) == Instant(new_t) < now

\* lines 181-218, the body of the try block after classification and
\* extraction: the outcomes for a front f on calendar cal at clock reading now
Respond(user_input, f, cal, now) ==
  IF f.raised
  THEN { [kind |-> "raise", reply |-> Reply("", "", <<>>), cal |-> cal,
          calls |-> <<>>, now |-> now] }
  ELSE IF f.intent = "help" THEN { Returned(HELP_RESPONSE, cal, <<>>, now) }
  ELSE IF f.intent = "list"
  THEN UNION { Delegated(ListUpcomingEvents(cal, now, svc),
                         Call("list_upcoming_events", None, None), now) :
               svc \in ServiceOutcomes \ {"write"} }
  ELSE IF f.intent = "reschedule"
  THEN IF Missing(f.old_t) \/ Missing(f.new_t)
       THEN { Returned(BothTimesPrompt, cal, <<>>, now) }
       ELSE IF NotInFuture(f.new_t, now)
       THEN { Returned(FutureRejection, cal, <<>>, now) }
       ELSE UNION { Delegated(RescheduleEvent(cal, EventLabel, f.old_t, f.new_t, svc),
                              Call("reschedule_event", f.old_t, f.new_t), now) :
                    svc \in ServiceOutcomes }
  ELSE IF Missing(f.parsed_t) THEN { Returned(TimePrompt, cal, <<>>, now) }
  ELSE IF f.intent = "cancel"
  THEN IF /\ Contains(Lower(user_input), "tomorrow")
          /\ ~SearchRelativeClock(Lower(user_input))
       THEN { Returned(CancelTimePrompt, cal, <<>>, now) }
       ELSE UNION { Delegated(CancelEventBySummary(cal, EventLabel, f.parsed_t, svc),
                              Call("cancel_event_by_summary", f.parsed_t, None), now) :
                    svc \in ServiceOutcomes }
  ELSE IF f.intent = "check"
  THEN UNION { Delegated(GetFreeSlots(cal, f.parsed_t, svc),
                         Call("get_free_slots", f.parsed_t, None), now) :
               svc \in ServiceOutcomes \ {"write"} }
  ELSE IF f.intent = "book"
  THEN UNION { Delegated(BookSlot(cal, f.parsed_t, EventLabel, svc),
                         Call("book_slot", f.parsed_t, None), now) :
               svc \in ServiceOutcomes }
  ELSE { Returned(FallbackReply, cal, <<>>, now) }

\* a handler without its except clause: the outcome as it is
Uncaught(o) == o

\* except Exception as exc: return the warning reply
ExceptClause(o) ==
  IF o.kind = "raise"
  THEN [o EXCEPT !.kind = "return",
                 !.reply = Reply(WarningMarker, " An error occurred: ", <<"exc">>)]
  ELSE o

\* handle_user_input, for a front of the utterance
HandleUserInput(user_input, f, cal, now) ==
  { ExceptClause(o) : o \in Respond(user_input, f, cal, now) }

(***************************************************************************)
(* agent.py: _run_agent and process_message.  graph.invoke is the          *)
(* environment's: it runs the one node, or raises before the node ran.     *)
(***************************************************************************)
GraphOutcomes == {"ok", "raise"}

SystemErrorReply == Reply(WarningMarker, " System error: ", <<"exc">>)

\* _run_agent: the reply is appended to the messages of the state
RunAgent(messages, user_input, f, cal, now) ==
  { [o EXCEPT !.reply = Append(messages, [role |-> "assistant", content |-> o.reply])] :
    o \in HandleUserInput(user_input, f, cal, now) }

\* except Exception as exc of process_message
SystemExceptClause(o) ==
  IF o.kind = "raise" THEN [o EXCEPT !.kind = "return", !.reply = SystemErrorReply] ELSE o

\* process_message: result["messages"][-1]["content"], for one behaviour of
\* graph.invoke
ProcessMessage(user_message, f, cal, now, graph) ==
  LET state == << [role |-> "user", content |-> Reply("", user_message, <<>>)] >>
      ran == RunAgent(state, user_message, f, cal, now)
      failed == [kind |-> "raise", reply |-> Reply("", "", <<>>), cal |-> cal,
                 calls |-> <<>>, now |-> now]
      tried == IF graph = "raise" THEN { failed }
               ELSE { [o EXCEPT !.reply = o.reply[Len(o.reply)].content] : o \in ran }
  IN  { SystemExceptClause(o) : o \in tried }

(***************************************************************************)
(* The state: the remote calendar, the clock, and the call whose reply is  *)
(* still with the caller: what the call was given and what it did (entry   *)
(* "" when no reply is pending).  A caller makes one call at a time.       *)
(***************************************************************************)
VARIABLES calendar, now, last

vars == <<calendar, now, last>>

\* the utterances the handler is given
Utterances ==
  { "help",
    "please help me move it",
    "asdf qwer",
    "Book tomorrow at 3 PM!",
    "are you free tomorrow",
    "cancel meeting tomorrow",
    "cancel and book 3 pm",
    "show events",
    "move it",
    "move 2 pm to 4 pm",
    "Reschedule from monday to friday",
    "Noon," }

\* the texts the extractors and the classifier are given
Texts ==
  Utterances \cup
  { "morning", "afternoon", "evening", "night", "noon", "midnight",
    "tomorrow morning", "friday night", "goodnight", "this afternoon at 5",
    "morning or evening", "midnight snack at noon", "Morning",
    "28th jun 10 pm", "on the 3rd at 10:30 am", "tomorrow 5pm",
    "call off 3 pm", "calling off", "check my schedule", "list and cancel",
    "book change", "meeting", "a meet-up", "set  up a call", "When are you around",
    "unhelpful", "delete the events", "from 9 am to noon", "shift from x to",
    "Reschedule from 2 PM to 4 PM tomorrow", "2 pm 4 pm 6 pm",
    "12:30pm then 1:45 pm", "remove 100 pm and 1 pm" }

\* the start times and summaries the calendar operations are given: 09:00 in
\* the target zone, 04:00 UTC (09:30 there) and a naive 10:00
StartTimes ==
  { DT(TRUE, INDIA_TZ, 1, 9 * 60), DT(TRUE, 0, 1, 4 * 60), DT(FALSE, 0, 1, 10 * 60) }

Summaries == { EventLabel, "Lunch" }

\* a one-hour event as the service holds it
Event(id, summary, start) ==
  [id |-> id, summary |-> summary, start |-> start, end |-> start + 60]

\* the calendars the operations may start from: no two events overlap
InitialCalendars ==
  { {}, { Event(1, "Lunch", Instant(DT(TRUE, INDIA_TZ, 1, 9 * 60 + 30))) } }

NoCall ==
  [entry |-> "", u |-> "", intent |-> "", raised |-> FALSE,
   old_t |-> None, new_t |-> None, parsed_t |-> None, log |-> <<>>,
   kind |-> "", reply |-> Reply("", "", <<>>), calls |-> <<>>, now |-> 0,
   svc |-> "", pre |-> {}]

\* the record of a handler call: utterance, front, outcome, calendar before
Handled(entry, u, f, o, pre) ==
  [NoCall EXCEPT !.entry = entry, !.u = u, !.intent = f.intent, !.raised = f.raised,
                 !.old_t = f.old_t, !.new_t = f.new_t, !.parsed_t = f.parsed_t,
                 !.kind = o.kind, !.reply = o.reply, !.calls = o.calls,
                 !.now = o.now, !.pre = pre]

\* the record of a direct call of a calendar operation
Operated(entry, summary, t1, t2, svc, o, pre) ==
  [NoCall EXCEPT !.entry = entry, !.u = summary, !.parsed_t = t1, !.new_t = t2,
                 !.svc = svc, !.kind = "return", !.reply = o.reply, !.pre = pre]

\* every utterance with every front the parser's outcomes give it
Understood == UNION { { [u |-> u, f |-> f] : f \in Understand(u) } : u \in Utterances }

Idle == last.entry = ""

\* the caller takes the reply (print, the HTTP response, the chat window)
Deliver ==
  /\ ~Idle
  /\ last' = NoCall
  /\ UNCHANGED <<calendar, now>>

\* time passes, a quarter of an hour at a time
Tick ==
  /\ now < ClockStart + 15 * MaxTicks
  /\ now' = now + 15
  /\ UNCHANGED <<calendar, last>>

(***************************************************************************)
(* Spec: the assistant.  Each call of handle_user_input or process_message *)
(* runs to completion in one step.                                         *)
(***************************************************************************)
Init ==
  /\ calendar = {}
  /\ now = ClockStart
  /\ last = NoCall

\* handle_user_input(user_input), the command-line entry
HandleUserInputCall ==
  /\ Idle
  /\ \E p \in Understood : \E o \in HandleUserInput(p.u, p.f, calendar, now) :
        /\ Cardinality(o.cal) <= MaxEvents
        /\ calendar' = o.cal
        /\ last' = Handled("handle_user_input", p.u, p.f, o, calendar)
  /\ UNCHANGED now

\* process_message(user_message), the entry of the web front ends
ProcessMessageCall ==
  /\ Idle
  /\ \E p \in Understood : \E graph \in GraphOutcomes :
     \E o \in ProcessMessage(p.u, p.f, calendar, now, graph) :
        /\ Cardinality(o.cal) <= MaxEvents
        /\ calendar' = o.cal
        /\ last' = Handled("process_message", p.u, p.f, o, calendar)
  /\ UNCHANGED now

Next == HandleUserInputCall \/ ProcessMessageCall \/ Deliver \/ Tick

Spec == Init /\ [][Next]_vars

(***************************************************************************)
(* SpecText: the pure text functions, each applied to every text.          *)
(***************************************************************************)
InjectDefaultHourCall ==
  /\ Idle
  /\ \E text \in Texts :
        last' = [NoCall EXCEPT !.entry = "_inject_default_hour", !.u = text,
                               !.kind = "return",
                               !.reply = Reply("", InjectDefaultHour(text), <<>>)]
  /\ UNCHANGED <<calendar, now>>

CleanTextForParsingCall ==
  /\ Idle
  /\ \E text \in Texts :
        last' = [NoCall EXCEPT !.entry = "_clean_text_for_parsing", !.u = text,
                               !.kind = "return",
                               !.reply = Reply("", CleanTextForParsing(text), <<>>)]
  /\ UNCHANGED <<calendar, now>>

ExtractSingleTimeCall ==
  /\ Idle
  /\ \E text \in Texts : \E r \in ExtractSingleTime(text, {}) :
        last' = [NoCall EXCEPT !.entry = "_extract_single_time", !.u = text,
                               !.kind = IF r.res.kind = "raise" THEN "raise" ELSE "return",
                               !.raised = r.res.kind = "raise",
                               !.parsed_t = r.res, !.log = r.log]
  /\ UNCHANGED <<calendar, now>>

ExtractTimesForRescheduleCall ==
  /\ Idle
  /\ \E text \in Texts : \E r \in ExtractTimesForReschedule(text, {}) :
        last' = [NoCall EXCEPT !.entry = "_extract_times_for_reschedule", !.u = text,
                               !.kind = IF r.raised THEN "raise" ELSE "return",
                               !.raised = r.raised,
                               !.old_t = r.old, !.new_t = r.new, !.log = r.log]
  /\ UNCHANGED <<calendar, now>>

DetectIntentCall ==
  /\ Idle
  /\ \E text \in Texts : \E d \in DetectIntent(text, {}) :
        last' = [NoCall EXCEPT !.entry = "_detect_intent", !.u = text,
                               !.kind = IF d.raised THEN "raise" ELSE "return",
                               !.raised = d.raised,
                               !.intent = d.intent, !.log = d.log]
  /\ UNCHANGED <<calendar, now>>

NextText ==
  \/ InjectDefaultHourCall
  \/ CleanTextForParsingCall
  \/ ExtractSingleTimeCall
  \/ ExtractTimesForRescheduleCall
  \/ DetectIntentCall
  \/ Deliver

SpecText == Init /\ [][NextText]_vars

(***************************************************************************)
(* SpecCalendar: the operations of calendar_utils.py, called directly, one *)
(* at a time, on a calendar that starts without overlapping events.        *)
(***************************************************************************)
InitCalendar ==
  /\ calendar \in InitialCalendars
  /\ now = ClockStart
  /\ last = NoCall

BookSlotCall ==
  /\ Idle
  /\ \E start_time \in StartTimes, summary \in Summaries, svc \in ServiceOutcomes :
     \E o \in BookSlot(calendar, start_time, summary, svc) :
        /\ Cardinality(o.cal) <= MaxEvents
        /\ calendar' = o.cal
        /\ last' = Operated("book_slot", summary, start_time, None, svc, o, calendar)
  /\ UNCHANGED now

GetFreeSlotsCall ==
  /\ Idle
  /\ \E start_time \in StartTimes, svc \in ServiceOutcomes \ {"write"} :
     \E o \in GetFreeSlots(calendar, start_time, svc) :
        /\ calendar' = o.cal
        /\ last' = Operated("get_free_slots", "", start_time, None, svc, o, calendar)
  /\ UNCHANGED now

ListUpcomingEventsCall ==
  /\ Idle
  /\ \E svc \in ServiceOutcomes \ {"write"} :
     \E o \in ListUpcomingEvents(calendar, now, svc) :
        /\ calendar' = o.cal
        /\ last' = Operated("list_upcoming_events", "", None, None, svc, o, calendar)
  /\ UNCHANGED now

RescheduleEventCall ==
  /\ Idle
  /\ \E old_time \in StartTimes, new_time \in StartTimes, summary_text \in Summaries,
        svc \in ServiceOutcomes :
     \E o \in RescheduleEvent(calendar, summary_text, old_time, new_time, svc) :
        /\ calendar' = o.cal
        /\ last' = Operated("reschedule_event", summary_text, old_time, new_time, svc,
                            o, calendar)
  /\ UNCHANGED now

CancelEventBySummaryCall ==
  /\ Idle
  /\ \E date_time \in StartTimes, summary_text \in Summaries, svc \in ServiceOutcomes :
     \E o \in CancelEventBySummary(calendar, summary_text, date_time, svc) :
        /\ calendar' = o.cal
        /\ last' = Operated("cancel_event_by_summary", summary_text, date_time, None,
                            svc, o, calendar)
  /\ UNCHANGED now

NextCalendar ==
  \/ BookSlotCall
  \/ GetFreeSlotsCall
  \/ ListUpcomingEventsCall
  \/ RescheduleEventCall
  \/ CancelEventBySummaryCall
  \/ Deliver
  \/ Tick

SpecCalendar == InitCalendar /\ [][NextCalendar]_vars

(***************************************************************************)
(* Properties.  Each is read off the record of the last call: what it was  *)
(* given (u, the times), what the classifier and the extractors made of it *)
(* and what it returned.                                                   *)
(***************************************************************************)
HandlerEntries == {"handle_user_input", "process_message"}

\* the utterance has no "help" in it and matches none of the keyword patterns
NoKeyword(u) ==
  /\ ~Contains(Strip(Lower(u)), "help")
  /\ \A k \in 1..Len(INTENT_PATTERNS) :
        ~SearchWords(Strip(Lower(u)), INTENT_PATTERNS[k].alts)

\* the utterance matches the keyword pattern of the class
ClassMatches(u, intent) ==
  \E k \in 1..Len(INTENT_PATTERNS) :
     /\ INTENT_PATTERNS[k].intent = intent
     /\ SearchWords(Strip(Lower(u)), INTENT_PATTERNS[k].alts)

\* the intent the stated precedence gives an utterance by its keywords alone
KeywordIntent(u) ==
  IF Contains(Strip(Lower(u)), "help") THEN "help"
  ELSE IF ClassMatches(u, "reschedule") THEN "reschedule"
  ELSE IF ClassMatches(u, "cancel") THEN "cancel"
  ELSE IF ClassMatches(u, "check") THEN "check"
  ELSE IF ClassMatches(u, "list") THEN "list"
  ELSE IF ClassMatches(u, "book") THEN "book"
  ELSE "none"

IntentTags ==
  {"greeting", "help", "list", "reschedule", "cancel", "check", "book", "unknown"}

\* aware and expressed in Asia/Kolkata
InTargetZone(dt) == dt.aware /\ dt.off = INDIA_TZ

\* C1: handle_user_input and process_message never raise: every call
\* returns, and when a step of classification or extraction raised, the reply
\* returned begins with the warning marker.
C1_NeverRaises ==
  last.entry \in HandlerEntries =>
     /\ last.kind = "return"
     /\ (last.raised => last.reply.marker = WarningMarker)

\* a call of the handler in which the parser raised, answered with the
\* handler's warning reply
C1_Witness ==
  /\ last.entry = "handle_user_input"
  /\ last.raised
  /\ last.kind = "return"
  /\ last.reply = Reply(WarningMarker, " An error occurred: ", <<"exc">>)

\* C2: for an utterance with no keyword and no "help" from which no time is
\* extracted (neither by the classifier, which so returns unknown, nor by the
\* handler), the handler returns the fixed fallback reply, with no
\* collaborator call.
C2_UnknownGetsFallback ==
  ( /\ last.entry = "handle_user_input"
    /\ ~last.raised
    /\ NoKeyword(last.u)
    /\ last.intent = "unknown"
    /\ last.parsed_t.kind = "none" )
  => /\ last.reply = FallbackReply
     /\ last.calls = <<>>

\* C3: a reschedule with both times extracted is rejected, without a call of
\* reschedule_event, whenever the new time is not after the clock reading
\* (equal to it included); reschedule_event is called only for a later time.
C3_RejectsNotAfterNow ==
  ( /\ last.entry = "handle_user_input"
    /\ ~last.raised
    /\ last.intent = "reschedule"
    /\ last.old_t.kind = "dt"
    /\ last.new_t.kind = "dt" )
  => /\ (Instant(last.new_t) <= last.now =>
            last.reply = FutureRejection /\ last.calls = <<>>)
     /\ (last.calls # <<>> => Instant(last.new_t) > last.now)

\* C4: when the time an intent needs is missing the handler returns a prompt
\* and calls no collaborator: the time prompt for book, cancel and check
\* without a time, the both-times prompt for a reschedule without its old or
\* its new time.  The calendar is as it was.  (A process_message whose
\* graph.invoke raised never ran the handler: it is the system error reply.)
C4_MissingTimePrompts ==
  (last.entry \in HandlerEntries /\ ~last.raised /\ last.reply # SystemErrorReply) =>
     /\ (last.intent \in {"book", "cancel", "check"} /\ last.parsed_t.kind = "none") =>
           last.reply = TimePrompt /\ last.calls = <<>> /\ calendar = last.pre
     /\ (last.intent = "reschedule"
           /\ (last.old_t.kind = "none" \/ last.new_t.kind = "none")) =>
           last.reply = BothTimesPrompt /\ last.calls = <<>> /\ calendar = last.pre

\* a reschedule whose old time was extracted and whose new time was not
C4_Witness ==
  /\ last.entry = "handle_user_input"
  /\ last.intent = "reschedule"
  /\ last.old_t.kind = "dt"
  /\ last.new_t.kind = "none"
  /\ last.reply = BothTimesPrompt
  /\ last.calls = <<>>

\* C5: whenever _detect_intent returns, it returns one of the eight tags, and
\* it returns unknown exactly when the text has no "help", matches no keyword
\* pattern and gives the extractor no time.
C5_ClassificationTotal ==
  (last.entry = "_detect_intent" /\ last.kind = "return") =>
     /\ last.intent \in IntentTags
     /\ last.intent = "unknown" <=>
           /\ NoKeyword(last.u)
           /\ Len(last.log) = 1
           /\ last.log[1].res.kind = "none"

\* a text without keyword and without time, classified unknown
C5_Witness ==
  /\ last.entry = "_detect_intent"
  /\ last.kind = "return"
  /\ NoKeyword(last.u)
  /\ last.intent = "unknown"

\* C6: a text with "help" in it is classified help whatever else it holds;
\* otherwise a text matching keyword classes is classified as the first of
\* them in the order reschedule, cancel, check, list, book; the extractor is
\* run only for a text that matches none.
C6_Precedence ==
  last.entry = "_detect_intent" =>
     /\ (KeywordIntent(last.u) # "none" =>
            /\ last.kind = "return"
            /\ last.intent = KeywordIntent(last.u)
            /\ last.log = <<>>)
     /\ (last.log # <<>> => KeywordIntent(last.u) = "none")

\* a text matching the cancel and the book class, classified cancel
C6_Witness ==
  /\ last.entry = "_detect_intent"
  /\ ~Contains(Strip(Lower(last.u)), "help")
  /\ ClassMatches(last.u, "cancel")
  /\ ClassMatches(last.u, "book")
  /\ last.intent = "cancel"

\* the instant a start time stands for: a naive one is taken in Asia/Kolkata
WindowStart(t) == IF t.aware THEN Instant(t) ELSE Instant(t) - INDIA_TZ

\* the events of cal that overlap the hour [t, t + 1h)
Overlapping(cal, t) ==
  { e \in cal : e.start < WindowStart(t) + 60 /\ e.end > WindowStart(t) }

\* C7: book_slot never double-books.  When an event of the calendar overlaps
\* [time, time + 1h) the calendar is left as it was, and the reply, when the
\* calendar service answered, is the conflict message; the calendar changes
\* only when nothing overlaps, by exactly one new one-hour event with the
\* given summary starting at time; and with nothing overlapping and the
\* service answering, that event is inserted.
C7_NoDoubleBooking ==
  last.entry = "book_slot" =>
     LET over == Overlapping(last.pre, last.parsed_t)
     IN  /\ over # {} =>
               /\ calendar = last.pre
               /\ last.svc = "ok" => /\ last.reply.marker = ":x:"
                                     /\ last.reply.body = " Time slot conflict at "
         /\ calendar # last.pre =>
               /\ over = {}
               /\ \E e \in calendar \ last.pre :
                     /\ calendar = last.pre \cup {e}
                     /\ e.summary = last.u
                     /\ e.start = WindowStart(last.parsed_t)
                     /\ e.end = e.start + 60
                     /\ \A o \in last.pre : o.id # e.id
         /\ (over = {} /\ last.svc = "ok") => calendar # last.pre

\* a booking into an hour that an event of the calendar overlaps without
\* starting in it, refused
C7_Witness ==
  /\ last.entry = "book_slot"
  /\ last.svc = "ok"
  /\ \E e \in last.pre :
        /\ e \in Overlapping(last.pre, last.parsed_t)
        /\ e.start < WindowStart(last.parsed_t)
  /\ last.reply.marker = ":x:"
  /\ calendar = last.pre

\* C8: when the parse inside _extract_single_time gives a datetime at
\* midnight (hour 0, minute 0), the value returned is 09:00 in Asia/Kolkata.
C8_MidnightIsNineLocal ==
  ( /\ last.entry = "_extract_single_time"
    /\ Len(last.log) = 1
    /\ last.log[1].parsed.kind = "dt"
    /\ Hour(last.log[1].parsed) = 0
    /\ Minute(last.log[1].parsed) = 0 )
  => /\ last.parsed_t.kind = "dt"
     /\ InTargetZone(last.parsed_t)
     /\ Hour(last.parsed_t) = DefaultHour
     /\ Minute(last.parsed_t) = 0

\* C9: every datetime _extract_single_time returns, whichever parse gave it,
\* and every datetime in the pair _extract_times_for_reschedule returns, is
\* aware and in Asia/Kolkata.
C9_ResultsInTargetZone ==
  /\ (last.entry = "_extract_single_time" /\ last.parsed_t.kind = "dt") =>
        InTargetZone(last.parsed_t)
  /\ (last.entry = "_extract_times_for_reschedule" /\ last.old_t.kind = "dt") =>
        InTargetZone(last.old_t)
  /\ (last.entry = "_extract_times_for_reschedule" /\ last.new_t.kind = "dt") =>
        InTargetZone(last.new_t)

\* a naive datetime from the second fallback parse, returned localized
C9_Witness ==
  /\ last.entry = "_extract_single_time"
  /\ Len(last.log) = 1
  /\ last.log[1].site = "B"
  /\ last.log[1].parsed.kind = "dt"
  /\ ~last.log[1].parsed.aware
  /\ InTargetZone(last.parsed_t)
  /\ Instant(last.parsed_t) = Instant(Localize(DefaultToNine(last.log[1].parsed)))

\* p occurs in s at i as a whole word
WordAt(s, p, i) ==
  StartsAt(s, p, i) /\ WordBoundary(s, i) /\ WordBoundary(s, i + Len(p))

HasWord(s, p) == \E i \in 1..Len(s) : WordAt(s, p, i)

RECURSIVE ReplaceWordFrom(_, _, _, _)
ReplaceWordFrom(s, p, r, i) ==
  IF i > Len(s) THEN ""
  ELSE IF WordAt(s, p, i) THEN r \o ReplaceWordFrom(s, p, r, i + Len(p))
  ELSE Ch(s, i) \o ReplaceWordFrom(s, p, r, i + 1)

\* s with every whole-word occurrence of p replaced by r
ReplaceWord(s, p, r) == ReplaceWordFrom(s, p, r, 1)

\* C10: for a lower-case text in which one of the six phrases occurs as a
\* whole word (and no other does), _inject_default_hour gives the text with
\* that word replaced by the clock time of its own entry in the mapping; a
\* text in which no phrase occurs as a whole word is left unchanged.
C10_WholeWordSubstitution ==
  (last.entry = "_inject_default_hour" /\ last.u = Lower(last.u)) =>
     /\ \A k \in 1..Len(Replacements) :
           ( /\ HasWord(last.u, Replacements[k][1])
             /\ \A j \in 1..Len(Replacements) :
                   j # k => ~HasWord(last.u, Replacements[j][1]) )
           => last.reply.body = ReplaceWord(last.u, Replacements[k][1], Replacements[k][2])
     /\ (\A k \in 1..Len(Replacements) : ~HasWord(last.u, Replacements[k][1]))
           => last.reply.body = last.u

\* two events of the calendar whose windows overlap
Overlap(a, b) == a # b /\ a.start < b.end /\ b.start < a.end

\* C11: a calendar that starts without overlapping events has none after any
\* sequence of book_slot, reschedule_event and cancel_event_by_summary calls;
\* reschedule_event does not move an event onto a window another event holds.
C11_NoOverlapEver ==
  \A a \in calendar : \A b \in calendar : ~Overlap(a, b)

=============================================================================
